---- MODULE Spec2Model ----
(***************************************************************************)
(* Model of native_text_buffer.rs: the JNI bindings that expose a          *)
(* ropey::Rope to the JVM as an opaque jlong handle.                       *)
(*                                                                         *)
(* A rope's content is a sequence of Unicode scalar values (Rust chars).   *)
(* A Java string is a sequence of UTF-16 code units.  The bindings convert *)
(* between the two on every call that takes or returns text.               *)
(***************************************************************************)
EXTENDS Integers, Sequences, FiniteSets, TLC

(***************************************************************************)
(* Bounds of the model.                                                    *)
(***************************************************************************)
\* Largest number of chars held by all live ropes together.
MaxLen == 3
\* Number of heap addresses the allocator can hand out in SpecLife.
MaxAddr == 2
\* Longest file (in bytes) read by createRopeFromFile.
MaxFile == 2

(***************************************************************************)
(* Java strings (UTF-16 code units) and their conversion to Rust Strings.  *)
(***************************************************************************)
\* A null jstring reference.
JNull == <<-1>>

IsHigh(u) == u >= 55296 /\ u <= 56319
IsLow(u) == u >= 56320 /\ u <= 57343
IsSurrogate(u) == IsHigh(u) \/ IsLow(u)

\* Every surrogate code unit of s is half of a high/low pair.
RECURSIVE WellFormed(_)
WellFormed(s) ==
    IF s = <<>> THEN TRUE
    ELSE IF IsHigh(s[1])
         THEN Len(s) >= 2 /\ IsLow(s[2]) /\ WellFormed(SubSeq(s, 3, Len(s)))
    ELSE IF IsLow(s[1]) THEN FALSE
    ELSE WellFormed(Tail(s))

\* cesu8 decoding of a well-formed string: a surrogate pair is one char.
RECURSIVE FromJavaCesu8(_)
FromJavaCesu8(s) ==
    IF s = <<>> THEN <<>>
    ELSE IF IsHigh(s[1])
         THEN <<65536 + (s[1] - 55296) * 1024 + (s[2] - 56320)>>
              \o FromJavaCesu8(SubSeq(s, 3, Len(s)))
    ELSE <<s[1]>> \o FromJavaCesu8(Tail(s))

\* The fallback when cesu8 decoding fails: the modified-UTF-8 bytes are
\* decoded lossily.  A surrogate is three bytes, none of which starts a valid
\* UTF-8 sequence, so each becomes U+FFFD; U+0000 is the two bytes C0 80.
RECURSIVE FromUtf8Lossy(_)
FromUtf8Lossy(s) ==
    IF s = <<>> THEN <<>>
    ELSE (IF IsSurrogate(s[1]) THEN <<65533, 65533, 65533>>
          ELSE IF s[1] = 0 THEN <<65533, 65533>>
          ELSE <<s[1]>>) \o FromUtf8Lossy(Tail(s))

\* env.get_string(&text) ... .into(): the Rust String made of a Java string.
GetString(s) == IF WellFormed(s) THEN FromJavaCesu8(s) ELSE FromUtf8Lossy(s)

\* A new_string that takes every char for one UTF-16 code unit.
RECURSIVE NewStringUnitPerChar(_)
NewStringUnitPerChar(cs) ==
    IF cs = <<>> THEN <<>>
    ELSE <<cs[1] % 65536>> \o NewStringUnitPerChar(Tail(cs))

\* env.new_string(..): the Java string made of a Rust String.
RECURSIVE NewString(_)
NewString(cs) ==
    IF cs = <<>> THEN <<>>
    ELSE (IF cs[1] >= 65536
          THEN <<55296 + ((cs[1] - 65536) \div 1024),
                 56320 + ((cs[1] - 65536) % 1024)>>
          ELSE <<cs[1]>>) \o NewString(Tail(cs))

(***************************************************************************)
(* Integer conversions at the boundary.                                    *)
(***************************************************************************)
\* `i as usize <= j as usize` for jints i, j: a negative jint sign-extends
\* to a value above every non-negative one, keeping the order among negatives.
UsizeLe(i, j) == IF (i < 0) = (j < 0) THEN i <= j ELSE j < 0

\* `n as jint` for a usize n: the low 32 bits, read as signed.
AsJint(n) == IF n <= 2147483647 THEN n ELSE n - 2147483647 - 2147483647 - 2

\* A conversion that gives U+FFFD for a char above 0xFFFF.
AsJcharReplacing(c) == IF c > 65535 THEN 65533 ELSE c

\* `c as u16` for a char c: the low 16 bits.
AsJchar(c) == c % 65536

(***************************************************************************)
(* ropey::Rope, by its content.                                            *)
(***************************************************************************)
\* An insert that puts the text one char too far (at the end when at the end).
InsertCharsOneOff(s, i, t) ==
    IF i < Len(s) THEN SubSeq(s, 1, i + 1) \o t \o SubSeq(s, i + 2, Len(s))
    ELSE s \o t

\* Rope::insert(char_idx, text), char_idx <= len_chars.
InsertChars(s, i, t) == SubSeq(s, 1, i) \o t \o SubSeq(s, i + 1, Len(s))

\* A remove that takes the range to include its end.
RemoveCharsInclusive(s, a, b) == SubSeq(s, 1, a) \o SubSeq(s, b + 2, Len(s))

\* Rope::remove(start..end), start <= end <= len_chars.
RemoveChars(s, a, b) == SubSeq(s, 1, a) \o SubSeq(s, b + 1, Len(s))

\* Rope::slice(start..end), start <= end <= len_chars.
SliceChars(s, a, b) == SubSeq(s, a + 1, b)

\* Line breaks with CR and LF each a break of its own.
IsBreakAtSplitCrlf(s, i) == s[i] \in {10, 11, 12, 13, 133, 8232, 8233}

\* The char at 1-based position i ends a line break.  ropey's line breaks are
\* LF, VT, FF, CR, NEL, LS, PS, and CR LF taken together as one break.
IsBreakAt(s, i) ==
    \/ s[i] \in {10, 11, 12, 133, 8232, 8233}
    \/ s[i] = 13 /\ ~(i < Len(s) /\ s[i + 1] = 10)

\* Number of line breaks that end within the first n chars.
BreaksBefore(s, n) == Cardinality({j \in 1..n : IsBreakAt(s, j)})

\* Rope::len_lines().
LenLines(s) == BreaksBefore(s, Len(s)) + 1

\* Rope::line_to_char(line_idx), line_idx <= len_lines.
LineToChar(s, l) ==
    IF l = 0 THEN 0
    ELSE IF l >= LenLines(s) THEN Len(s)
    ELSE CHOOSE i \in 1..Len(s) : IsBreakAt(s, i) /\ BreaksBefore(s, i) = l

\* A char_to_line that puts the LF of a CR LF on the line after it.
CharToLineSplitCrlf(s, c) ==
    Cardinality({j \in 1..c : s[j] \in {10, 11, 12, 13, 133, 8232, 8233}})

\* Rope::char_to_line(char_idx), char_idx <= len_chars.
CharToLine(s, c) == BreaksBefore(s, c)

\* Rope::line(line_idx), line_idx < len_lines.
LineChars(s, l) == SliceChars(s, LineToChar(s, l), LineToChar(s, l + 1))

\* Number of bytes of a char in UTF-8.
Utf8Width(c) == IF c < 128 THEN 1 ELSE IF c < 2048 THEN 2
                ELSE IF c < 65536 THEN 3 ELSE 4

\* Rope::len_bytes().
RECURSIVE LenBytes(_)
LenBytes(s) == IF s = <<>> THEN 0 ELSE Utf8Width(s[1]) + LenBytes(Tail(s))

(***************************************************************************)
(* Files: Rope::from_reader decodes the bytes of the file as UTF-8.        *)
(***************************************************************************)
IsCont(b) == b >= 128 /\ b <= 191

\* Number of bytes of the well-formed UTF-8 sequence that starts bs, or 0.
Utf8SeqLen(bs) ==
    LET n == Len(bs) b == bs[1] IN
    IF b < 128 THEN 1
    ELSE IF b >= 194 /\ b <= 223
         THEN (IF n >= 2 /\ IsCont(bs[2]) THEN 2 ELSE 0)
    ELSE IF b >= 224 /\ b <= 239
         THEN (IF /\ n >= 3 /\ IsCont(bs[2]) /\ IsCont(bs[3])
                  /\ (b = 224 => bs[2] >= 160)
                  /\ (b = 237 => bs[2] <= 159)
               THEN 3 ELSE 0)
    ELSE IF b >= 240 /\ b <= 244
         THEN (IF /\ n >= 4 /\ IsCont(bs[2]) /\ IsCont(bs[3]) /\ IsCont(bs[4])
                  /\ (b = 240 => bs[2] >= 144)
                  /\ (b = 244 => bs[2] <= 143)
               THEN 4 ELSE 0)
    ELSE 0

\* The char encoded by the first k bytes of bs.
Utf8Char(bs, k) ==
    IF k = 1 THEN bs[1]
    ELSE IF k = 2 THEN (bs[1] - 192) * 64 + (bs[2] - 128)
    ELSE IF k = 3 THEN (bs[1] - 224) * 4096 + (bs[2] - 128) * 64 + (bs[3] - 128)
    ELSE (bs[1] - 240) * 262144 + (bs[2] - 128) * 4096
         + (bs[3] - 128) * 64 + (bs[4] - 128)

RECURSIVE Utf8Valid(_)
Utf8Valid(bs) ==
    IF bs = <<>> THEN TRUE
    ELSE LET k == Utf8SeqLen(bs) IN
         k > 0 /\ Utf8Valid(SubSeq(bs, k + 1, Len(bs)))

RECURSIVE Utf8Chars(_)
Utf8Chars(bs) ==
    IF bs = <<>> THEN <<>>
    ELSE LET k == Utf8SeqLen(bs) IN
         <<Utf8Char(bs, k)>> \o Utf8Chars(SubSeq(bs, k + 1, Len(bs)))

\* A from_reader that gives the rope of what it read before a read failed.
FromReaderKeepsPartial(bytes, failAt) ==
    IF failAt >= 0
    THEN (IF Utf8Valid(SubSeq(bytes, 1, failAt))
          THEN [ok |-> TRUE, chars |-> Utf8Chars(SubSeq(bytes, 1, failAt))]
          ELSE [ok |-> FALSE, chars |-> <<>>])
    ELSE IF ~Utf8Valid(bytes) THEN [ok |-> FALSE, chars |-> <<>>]
    ELSE [ok |-> TRUE, chars |-> Utf8Chars(bytes)]

\* Rope::from_reader(BufReader::new(file)) on a file holding bytes, where the
\* read fails after failAt bytes (failAt = -1: no read fails).  Ok carries the
\* rope of the whole file; a failed read or invalid UTF-8 is an Err and the
\* chars ingested until then are dropped with the builder.
FromReader(bytes, failAt) ==
    IF failAt >= 0 THEN [ok |-> FALSE, chars |-> <<>>]
    ELSE IF ~Utf8Valid(bytes) THEN [ok |-> FALSE, chars |-> <<>>]
    ELSE [ok |-> TRUE, chars |-> Utf8Chars(bytes)]

(***************************************************************************)
(* State.                                                                  *)
(***************************************************************************)
VARIABLES
    arena,     \* the addresses the allocator can hand out
    live,      \* the addresses that hold a Box<Rope>
    rope,      \* the content of the rope at each address
    status,    \* "running", "aborted" (a panic or an allocation failure
               \* ended the process) or "undefined" (undefined behaviour)
    last,      \* the last call: its arguments and what it returned
    expected,  \* per rope: chars created with + chars inserted - removed,
               \* counted in code points of the caller's strings, kept up
               \* to the first string that is not well formed
    wf,        \* per rope: every string given to it so far was well formed
    freed      \* the handles released by deleteRope and not handed out since

vars == <<arena, live, rope, status, last, expected, wf, freed>>

\* The record of a call.
L(op, ptr, a, b, text, io, ret, str) ==
    [op |-> op, ptr |-> ptr, a |-> a, b |-> b, text |-> text, io |-> io,
     ret |-> ret, str |-> str]

\* Number of code points of a Java string (an unpaired surrogate is one).
RECURSIVE CodePoints(_)
CodePoints(s) ==
    IF s = <<>> THEN 0
    ELSE IF IsHigh(s[1]) /\ Len(s) >= 2 /\ IsLow(s[2])
         THEN 1 + CodePoints(SubSeq(s, 3, Len(s)))
    ELSE 1 + CodePoints(Tail(s))

RECURSIVE SumLen(_, _)
SumLen(f, S) ==
    IF S = {} THEN 0
    ELSE LET p == CHOOSE q \in S : TRUE IN Len(f[p]) + SumLen(f, S \ {p})

\* Chars held by all live ropes.
TotalChars == SumLen(rope, live)

Addrs == 0..MaxAddr

InitWith(A) ==
    /\ arena = A
    /\ live = {}
    /\ rope = [p \in Addrs |-> <<>>]
    /\ status = "running"
    /\ last = L("init", 0, 0, 0, <<>>, "", 0, <<>>)
    /\ expected = [p \in Addrs |-> 0]
    /\ wf = [p \in Addrs |-> TRUE]
    /\ freed = {}

(***************************************************************************)
(* Construction and release.                                               *)
(***************************************************************************)
\* Box::into_raw(Box::new(r)) as jlong: r is put at a free address, which is
\* the handle.  The allocator may hand out an address it was given back.
Alloc(op, a, text, io, chars, count, wellFormed) ==
    \E p \in arena \ live :
        /\ live' = live \cup {p}
        /\ rope' = [rope EXCEPT ![p] = chars]
        /\ expected' = [expected EXCEPT ![p] = count]
        /\ wf' = [wf EXCEPT ![p] = wellFormed]
        /\ freed' = freed \ {p}
        /\ last' = L(op, 0, a, 0, text, io, p, <<>>)
        /\ UNCHANGED <<arena, status>>

CreateRope(text) ==
    /\ status = "running"
    /\ IF text = JNull
       THEN /\ status' = "aborted"
            /\ last' = L("createRope", 0, 0, 0, text, "", 0, <<>>)
            /\ UNCHANGED <<arena, live, rope, expected, wf, freed>>
       ELSE /\ TotalChars + Len(GetString(text)) <= MaxLen
            /\ Alloc("createRope", 0, text, "", GetString(text),
                     CodePoints(text), WellFormed(text))

\* io: what the file system does with the path.  "nullpath": the path string
\* cannot be read; "noent": File::open fails; "open": the file opens and holds
\* bytes, and its read fails after failAt bytes if failAt >= 0.
CreateRopeFromFile(io, bytes, failAt) ==
    /\ status = "running"
    /\ IF io = "nullpath" \/ io = "noent" \/ ~FromReader(bytes, failAt).ok
       THEN /\ last' = L("createRopeFromFile", 0, failAt, 0, bytes, io, 0, <<>>)
            /\ UNCHANGED <<arena, live, rope, status, expected, wf, freed>>
       ELSE /\ TotalChars + Len(FromReader(bytes, failAt).chars) <= MaxLen
            /\ Alloc("createRopeFromFile", failAt, bytes, io,
                     FromReader(bytes, failAt).chars,
                     Len(FromReader(bytes, failAt).chars), TRUE)

\* Box::from_raw on an address that holds no Box<Rope> (a second release, or
\* an address never handed out) is undefined behaviour.  What a build does:
\* nothing visible, an abort by the allocator, or damage to the heap that
\* takes another live rope with it.
DanglingFree(ptr) ==
    \E out \in {"silent", "abort", "corrupt"} :
        /\ last' = L("deleteRope", ptr, 0, 0, <<>>, out, 0, <<>>)
        /\ status' = (IF out = "silent" THEN status
                      ELSE IF out = "abort" THEN "aborted" ELSE "undefined")
        /\ IF out = "corrupt"
           THEN \E q \in live \cup {0} :
                   /\ live' = live \ {q}
                   /\ rope' = [rope EXCEPT ![q] = <<>>]
           ELSE UNCHANGED <<live, rope>>
        /\ UNCHANGED <<arena, expected, wf, freed>>

DeleteRope(ptr) ==
    /\ status = "running"
    /\ IF ptr = 0
       THEN /\ last' = L("deleteRope", ptr, 0, 0, <<>>, "", 0, <<>>)
            /\ UNCHANGED <<arena, live, rope, status, expected, wf, freed>>
       ELSE IF ptr \in live
       THEN /\ live' = live \ {ptr}
            /\ rope' = [rope EXCEPT ![ptr] = <<>>]
            /\ expected' = [expected EXCEPT ![ptr] = 0]
            /\ wf' = [wf EXCEPT ![ptr] = TRUE]
            /\ freed' = freed \cup {ptr}
            /\ last' = L("deleteRope", ptr, 0, 0, <<>>, "", 0, <<>>)
            /\ UNCHANGED <<arena, status>>
       ELSE DanglingFree(ptr)

(***************************************************************************)
(* Calls on a rope.  rope_from_ptr(ptr) dereferences ptr unchecked: it is  *)
(* undefined behaviour unless ptr is a live handle.  A panic of ropey      *)
(* cannot unwind out of an extern "system" function: the process aborts.   *)
(***************************************************************************)
\* A call that reads the rope at ptr: valid is ropey's precondition, ret and
\* str are what the call returns.
Read(op, ptr, a, b, valid, ret, str) ==
    /\ status = "running"
    /\ IF ptr \notin live
       THEN /\ status' = "undefined"
            /\ last' = L(op, ptr, a, b, <<>>, "", 0, <<>>)
       ELSE IF ~valid
       THEN /\ status' = "aborted"
            /\ last' = L(op, ptr, a, b, <<>>, "", 0, <<>>)
       ELSE /\ status' = status
            /\ last' = L(op, ptr, a, b, <<>>, "", ret, str)
    /\ UNCHANGED <<arena, live, rope, expected, wf, freed>>

RopeLen(ptr) ==
    Read("ropeLen", ptr, 0, 0, TRUE, AsJint(Len(rope[ptr])), <<>>)

RopeLineCount(ptr) ==
    Read("ropeLineCount", ptr, 0, 0, TRUE, AsJint(LenLines(rope[ptr])), <<>>)

\* An insert that clamps its index into the rope instead of panicking.
RopeInsertClamped(ptr, idx, text) ==
    /\ status = "running"
    /\ text # JNull /\ ptr \in live
    /\ TotalChars + Len(GetString(text)) <= MaxLen
    /\ LET n == Len(rope[ptr])
           i == IF idx < 0 THEN 0 ELSE IF idx > n THEN n ELSE idx IN
       rope' = [rope EXCEPT ![ptr] = InsertChars(@, i, GetString(text))]
    /\ expected' = [expected EXCEPT
                      ![ptr] = IF wf[ptr] THEN @ + CodePoints(text) ELSE @]
    /\ wf' = [wf EXCEPT ![ptr] = @ /\ WellFormed(text)]
    /\ last' = L("ropeInsert", ptr, idx, 0, text, "", 0, <<>>)
    /\ UNCHANGED <<arena, live, status, freed>>

RopeInsert(ptr, idx, text) ==
    /\ status = "running"
    /\ IF text = JNull
       THEN /\ status' = "aborted"
            /\ last' = L("ropeInsert", ptr, idx, 0, text, "", 0, <<>>)
            /\ UNCHANGED <<arena, live, rope, expected, wf, freed>>
       ELSE IF ptr \notin live
       THEN /\ status' = "undefined"
            /\ last' = L("ropeInsert", ptr, idx, 0, text, "", 0, <<>>)
            /\ UNCHANGED <<arena, live, rope, expected, wf, freed>>
       ELSE IF ~UsizeLe(idx, Len(rope[ptr]))
       THEN /\ status' = "aborted"
            /\ last' = L("ropeInsert", ptr, idx, 0, text, "", 0, <<>>)
            /\ UNCHANGED <<arena, live, rope, expected, wf, freed>>
       ELSE /\ TotalChars + Len(GetString(text)) <= MaxLen
            /\ rope' = [rope EXCEPT
                          ![ptr] = InsertChars(@, idx, GetString(text))]
            /\ expected' = [expected EXCEPT
                              ![ptr] = IF wf[ptr] THEN @ + CodePoints(text)
                                       ELSE @]
            /\ wf' = [wf EXCEPT ![ptr] = @ /\ WellFormed(text)]
            /\ last' = L("ropeInsert", ptr, idx, 0, text, "", 0, <<>>)
            /\ UNCHANGED <<arena, live, status, freed>>

RopeRemove(ptr, start, end) ==
    /\ status = "running"
    /\ IF ptr \notin live
       THEN /\ status' = "undefined"
            /\ last' = L("ropeRemove", ptr, start, end, <<>>, "", 0, <<>>)
            /\ UNCHANGED <<arena, live, rope, expected, wf, freed>>
       ELSE IF ~(UsizeLe(start, end) /\ UsizeLe(end, Len(rope[ptr])))
       THEN /\ status' = "aborted"
            /\ last' = L("ropeRemove", ptr, start, end, <<>>, "", 0, <<>>)
            /\ UNCHANGED <<arena, live, rope, expected, wf, freed>>
       ELSE /\ rope' = [rope EXCEPT ![ptr] = RemoveChars(@, start, end)]
            /\ expected' = [expected EXCEPT
                              ![ptr] = IF wf[ptr] THEN @ - (end - start)
                                       ELSE @]
            /\ last' = L("ropeRemove", ptr, start, end, <<>>, "", 0, <<>>)
            /\ UNCHANGED <<arena, live, status, wf, freed>>

\* A slice that takes the chars it returns out of the rope.
RopeSliceTakes(ptr, start, end) ==
    /\ status = "running"
    /\ ptr \in live
    /\ UsizeLe(start, end) /\ UsizeLe(end, Len(rope[ptr]))
    /\ rope' = [rope EXCEPT ![ptr] = RemoveChars(@, start, end)]
    /\ last' = L("ropeSlice", ptr, start, end, <<>>, "", 0,
                 NewString(SliceChars(rope[ptr], start, end)))
    /\ UNCHANGED <<arena, live, status, expected, wf, freed>>

RopeSlice(ptr, start, end) ==
    Read("ropeSlice", ptr, start, end,
         UsizeLe(start, end) /\ UsizeLe(end, Len(rope[ptr])),
         0, NewString(SliceChars(rope[ptr], start, end)))

RopeLineToChar(ptr, line) ==
    Read("ropeLineToChar", ptr, line, 0,
         UsizeLe(line, LenLines(rope[ptr])),
         AsJint(LineToChar(rope[ptr], line)), <<>>)

RopeCharToLine(ptr, charIdx) ==
    Read("ropeCharToLine", ptr, charIdx, 0,
         UsizeLe(charIdx, Len(rope[ptr])),
         AsJint(CharToLine(rope[ptr], charIdx)), <<>>)

RopeToString(ptr) ==
    Read("ropeToString", ptr, 0, 0, TRUE, 0, NewString(rope[ptr]))

RopeGetChar(ptr, index) ==
    Read("ropeGetChar", ptr, index, 0,
         ~UsizeLe(Len(rope[ptr]), index),
         AsJchar(rope[ptr][index + 1]), <<>>)

RopeGetLine(ptr, lineIndex) ==
    Read("ropeGetLine", ptr, lineIndex, 0,
         ~UsizeLe(LenLines(rope[ptr]), lineIndex),
         0, NewString(LineChars(rope[ptr], lineIndex)))

RopeByteLen(ptr) ==
    Read("ropeByteLen", ptr, 0, 0, TRUE, AsJint(LenBytes(rope[ptr])), <<>>)

RopeLineLen(ptr, line) ==
    Read("ropeLineLen", ptr, line, 0,
         ~UsizeLe(LenLines(rope[ptr]), line),
         AsJint(Len(LineChars(rope[ptr], line))), <<>>)

(***************************************************************************)
(* Spec: one document, every call, with text of every kind.                *)
(***************************************************************************)
\* Strings the caller passes: null, empty, a letter, LF, CR, a surrogate pair
\* (U+1F600) and an unpaired high surrogate.
Texts == {JNull, <<>>, <<97>>, <<10>>, <<13>>, <<55357, 56832>>, <<55357>>}

\* Indices the caller passes, from below 0 to beyond the end.
Indices == -1..(MaxLen + 1)

Init == InitWith({1})

Next ==
    \/ \E text \in Texts : CreateRope(text)
    \/ \E ptr \in arena \cup {0} : DeleteRope(ptr)
    \/ \E ptr \in arena : RopeLen(ptr)
    \/ \E ptr \in arena : RopeLineCount(ptr)
    \/ \E ptr \in arena, idx \in Indices, text \in Texts :
          RopeInsert(ptr, idx, text)
    \/ \E ptr \in arena, start \in Indices, end \in Indices :
          RopeRemove(ptr, start, end)
    \/ \E ptr \in arena, start \in Indices, end \in Indices :
          RopeSlice(ptr, start, end)
    \/ \E ptr \in arena, line \in Indices : RopeLineToChar(ptr, line)
    \/ \E ptr \in arena, charIdx \in Indices : RopeCharToLine(ptr, charIdx)
    \/ \E ptr \in arena : RopeToString(ptr)
    \/ \E ptr \in arena, index \in Indices : RopeGetChar(ptr, index)
    \/ \E ptr \in arena, lineIndex \in Indices : RopeGetLine(ptr, lineIndex)
    \/ \E ptr \in arena : RopeByteLen(ptr)
    \/ \E ptr \in arena, line \in Indices : RopeLineLen(ptr, line)

Spec == Init /\ [][Next]_vars

(***************************************************************************)
(* SpecLife: several documents, created from strings and from files,       *)
(* released, and released again.                                           *)
(***************************************************************************)
\* Bytes of the files: the two bytes of U+00E9, which are UTF-8 only as the
\* pair 195, 169.
FileBytes == {195, 169}

Files == UNION {[1..n -> FileBytes] : n \in 0..MaxFile}

LifeTexts == {<<>>, <<97>>}

InitLife == InitWith(1..MaxAddr)

NextLife ==
    \/ \E text \in LifeTexts : CreateRope(text)
    \/ \E io \in {"nullpath", "noent", "open"}, bytes \in Files,
          failAt \in -1..MaxFile :
          /\ failAt <= Len(bytes)
          /\ io # "open" => bytes = <<>> /\ failAt = -1
          /\ CreateRopeFromFile(io, bytes, failAt)
    \/ \E ptr \in Addrs : DeleteRope(ptr)
    \/ \E ptr \in arena, idx \in 0..1, text \in LifeTexts :
          RopeInsert(ptr, idx, text)
    \/ \E ptr \in arena : RopeToString(ptr)

SpecLife == InitLife /\ [][NextLife]_vars

(***************************************************************************)
(* Properties.                                                             *)
(***************************************************************************)
\* The last call returned (it neither aborted nor was undefined).
Returned(op) == last.op = op /\ status = "running"

\* The rope the last call was made on.
Target == rope[last.ptr]

\* C1 as stated: whenever ropeLen returns, its value is the number of chars
\* the rope was created with, plus those of the strings inserted, minus the
\* widths of the ranges removed, and is the number of chars of toString().
C1_LengthOfAnyText ==
    Returned("ropeLen") =>
        /\ last.ret = expected[last.ptr]
        /\ last.ret = CodePoints(NewString(Target))

\* C1, amended: the same, for a rope that was created from and has been given
\* only well-formed strings, their lengths counted in code points.
C1_LengthOfWellFormedText ==
    Returned("ropeLen") =>
        /\ wf[last.ptr] => last.ret = expected[last.ptr]
        /\ last.ret = CodePoints(NewString(Target))

\* ropeLen returns 2 for a rope made by inserting a letter after U+1F600.
C1_Witness ==
    /\ Returned("ropeLen")
    /\ wf[1] /\ expected[1] = 2 /\ last.ret = 2
    /\ Target = <<128512, 97>>

\* C2 as stated: toString() called right after createRope(S) returns S.
C2_RoundTripOfAnyText ==
    [][(/\ Returned("createRope")
        /\ last'.op = "ropeToString" /\ last'.ptr = last.ret
        /\ status' = "running")
       => last'.str = last.text]_vars

\* C2, amended: toString() called right after createRope(S) returns S when S
\* is well formed (every surrogate is half of a pair).
C2_RoundTripOfWellFormedText ==
    [][(/\ Returned("createRope") /\ WellFormed(last.text)
        /\ last'.op = "ropeToString" /\ last'.ptr = last.ret
        /\ status' = "running")
       => last'.str = last.text]_vars

\* toString() returns the surrogate pair of a rope that holds only U+1F600
\* and has had nothing inserted or removed.
C2_Witness ==
    /\ Returned("ropeToString")
    /\ last.str = <<55357, 56832>>
    /\ Target = <<128512>> /\ wf[last.ptr] /\ expected[last.ptr] = 1

\* What insert(i, T) leaves of the content before it: the chars before i,
\* and the chars from i on, now after the inserted ones.
KeepsAround(before, after, i) ==
    LET n == Len(after) - Len(before) IN
    /\ n >= 0
    /\ SubSeq(after, 1, i) = SubSeq(before, 1, i)
    /\ SubSeq(after, i + n + 1, Len(after)) = SubSeq(before, i + 1, Len(before))

\* C3 as stated: an insert(i, T) that returns puts T at i and keeps the text
\* around it, and slice(i, i + len(T)) called right after it returns T.
C3_InsertThenSliceOfAnyText ==
    [][/\ (last'.op = "ropeInsert" /\ status' = "running")
          => /\ KeepsAround(rope[last'.ptr], rope'[last'.ptr], last'.a)
             /\ Len(rope'[last'.ptr])
                  = Len(rope[last'.ptr]) + CodePoints(last'.text)
       /\ (/\ Returned("ropeInsert")
           /\ last'.op = "ropeSlice" /\ last'.ptr = last.ptr
           /\ last'.a = last.a /\ last'.b = last.a + CodePoints(last.text))
          => /\ status' = "running"
             /\ last'.str = last.text]_vars

\* C3, amended: the same for a well-formed T, len(T) counted in code points;
\* for any T the text around the inserted chars is kept.
C3_InsertThenSliceOfWellFormedText ==
    [][/\ (last'.op = "ropeInsert" /\ status' = "running")
          => /\ KeepsAround(rope[last'.ptr], rope'[last'.ptr], last'.a)
             /\ WellFormed(last'.text)
                  => Len(rope'[last'.ptr])
                       = Len(rope[last'.ptr]) + CodePoints(last'.text)
       /\ (/\ Returned("ropeInsert") /\ WellFormed(last.text)
           /\ last'.op = "ropeSlice" /\ last'.ptr = last.ptr
           /\ last'.a = last.a /\ last'.b = last.a + CodePoints(last.text))
          => /\ status' = "running"
             /\ last'.str = last.text]_vars

\* slice(1, 2) returns the surrogate pair that was inserted between two
\* letters.
C3_Witness ==
    /\ Returned("ropeSlice")
    /\ last.a = 1 /\ last.b = 2 /\ last.str = <<55357, 56832>>
    /\ Target = <<97, 128512, 97>> /\ wf[last.ptr]

\* Number of line terminators of a text, read from left to right: CR LF is one.
RECURSIVE Terminators(_)
Terminators(s) ==
    IF s = <<>> THEN 0
    ELSE IF Len(s) >= 2 /\ s[1] = 13 /\ s[2] = 10
         THEN 1 + Terminators(SubSeq(s, 3, Len(s)))
    ELSE IF s[1] \in {10, 11, 12, 13, 133, 8232, 8233}
         THEN 1 + Terminators(Tail(s))
    ELSE Terminators(Tail(s))

\* C4: for a rope with k line terminators, ropeLineCount returns k + 1,
\* ropeLineToChar(0) returns 0 and ropeLineToChar(k + 1) returns the length;
\* for the empty rope ropeLen returns 0 and ropeLineCount returns 1.
C4_LineCounting ==
    /\ Returned("ropeLineCount") => last.ret = Terminators(Target) + 1
    /\ (last.op = "ropeLineToChar" /\ last.ptr \in live /\ last.a = 0)
          => status = "running" /\ last.ret = 0
    /\ (/\ last.op = "ropeLineToChar" /\ last.ptr \in live
        /\ last.a = Terminators(Target) + 1)
          => status = "running" /\ last.ret = Len(Target)
    /\ (Returned("ropeLen") /\ Target = <<>>) => last.ret = 0
    /\ (Returned("ropeLineCount") /\ Target = <<>>) => last.ret = 1

\* ropeLineToChar(2) returns 3 on "a", CR, LF: one terminator, two lines.
C4_Witness ==
    /\ Returned("ropeLineToChar")
    /\ Target = <<97, 13, 10>>
    /\ last.a = 2 /\ last.ret = 3

\* C5: when ropeCharToLine(c) returned l for c below the length, then
\* ropeLineToChar(l) returns at most c and ropeLineToChar(l + 1) returns more
\* than c.
C5_IndexTranslationInverse ==
    [][(/\ Returned("ropeCharToLine")
        /\ last.a >= 0 /\ last.a < Len(Target)
        /\ last'.op = "ropeLineToChar" /\ last'.ptr = last.ptr)
       => /\ last'.a = last.ret
             => status' = "running" /\ last'.ret <= last.a
          /\ last'.a = last.ret + 1
             => status' = "running" /\ last.a < last'.ret]_vars

\* ropeLineToChar(1) returns 2 on CR, LF, "a": the line of char 2 starts at 2.
C5_Witness ==
    /\ Returned("ropeLineToChar")
    /\ Target = <<13, 10, 97>>
    /\ last.a = 1 /\ last.ret = 2

\* C6: an insert at an index outside [0, length], or a remove of a range
\* that is not 0 <= start <= end <= length, ends the process and leaves every
\* rope as it was.
C6_OutOfRangeIsFatal ==
    [][(/\ last'.ptr \in live
        /\ \/ /\ last'.op = "ropeInsert" /\ last'.text # JNull
              /\ ~(0 <= last'.a /\ last'.a <= Len(rope[last'.ptr]))
           \/ /\ last'.op = "ropeRemove"
              /\ ~(/\ 0 <= last'.a /\ last'.a <= last'.b
                   /\ last'.b <= Len(rope[last'.ptr])))
       => /\ status' = "aborted"
          /\ rope' = rope /\ live' = live]_vars

\* An insert at -1 into a rope that holds a letter aborted.
C6_Witness ==
    /\ last.op = "ropeInsert" /\ last.a = -1 /\ last.text = <<10>>
    /\ status = "aborted"
    /\ last.ptr \in live /\ Target = <<97>>

\* C7: createRopeFromFile returns 0 and leaves the heap as it was when the
\* path cannot be read, the file cannot be opened, a read fails or the bytes
\* are not UTF-8; otherwise it returns a new handle to a rope that holds the
\* chars of the whole file.
C7_FromFileAllOrNothing ==
    [][last'.op = "createRopeFromFile"
       => IF \/ last'.io # "open" \/ last'.a >= 0 \/ ~Utf8Valid(last'.text)
          THEN /\ last'.ret = 0
               /\ live' = live /\ rope' = rope /\ status' = status
          ELSE /\ last'.ret \in live' \ live
               /\ live' = live \cup {last'.ret}
               /\ rope' = [rope EXCEPT ![last'.ret] = Utf8Chars(last'.text)]
               /\ status' = status]_vars

\* A file that holds U+00E9 and whose read failed after the first byte: 0 was
\* returned and the only rope allocated is the one that was there before.
C7_Witness ==
    /\ last.op = "createRopeFromFile"
    /\ last.io = "open" /\ last.text = <<195, 169>> /\ last.a = 1
    /\ last.ret = 0 /\ live = {1} /\ rope[1] = <<233>>

\* C8: deleteRope on the null handle, or on a handle that was released
\* already, releases nothing and changes nothing.
C8_SecondDestroyIsNoOp ==
    [][(last'.op = "deleteRope" /\ (last'.ptr = 0 \/ last'.ptr \in freed))
       => /\ live' = live /\ rope' = rope /\ status' = status]_vars

QueryOps ==
    {"ropeLen", "ropeLineCount", "ropeByteLen", "ropeSlice", "ropeGetLine",
     "ropeToString", "ropeLineToChar", "ropeCharToLine", "ropeGetChar",
     "ropeLineLen"}

\* C9: a call of a query leaves every rope as it was; only ropeInsert and
\* ropeRemove change the content of a rope that stays live.
C9_QueriesArePure ==
    [][/\ last'.op \in QueryOps => rope' = rope /\ live' = live
       /\ \A p \in live \cap live' :
             rope'[p] # rope[p]
                => last'.op \in {"ropeInsert", "ropeRemove"} /\ last'.ptr = p
      ]_vars

\* ropeGetLine(0) returned the first line of a three-char rope, which still
\* holds its three chars.
C9_Witness ==
    /\ Returned("ropeGetLine")
    /\ last.a = 0 /\ last.str = <<97, 10>>
    /\ Target = <<97, 10, 97>>

\* C10: ropeGetChar at a valid index returns the char's code point modulo
\* 2^16: the code point itself up to 0xFFFF, its low 16 bits above.
C10_GetCharIs16Bit ==
    (/\ last.op = "ropeGetChar" /\ last.ptr \in live
     /\ 0 <= last.a /\ last.a < Len(Target))
    => LET c == Target[last.a + 1] IN
       /\ status = "running"
       /\ last.ret = c - 65536 * (c \div 65536)
       /\ c <= 65535 => last.ret = c
       /\ c > 65535 => last.ret # c /\ last.ret < 65536

\* ropeGetChar returned 0xF600 for U+1F600.
C10_Witness ==
    /\ Returned("ropeGetChar")
    /\ Target[last.a + 1] = 128512 /\ last.ret = 62976

====
